---- MODULE Spec2Model ----
(***************************************************************************)
(* A model of scripts/mpscore.py: the MPScore object (self.model,          *)
(* self.calibrated_model), cross_validate, get_precision_recall_curve_data,*)
(* plot_precision_recall_curve, train_using_entire_dataset, restore,       *)
(* invert_calibrated_prob and ProbabilityDummyClassifier.                  *)
(*                                                                         *)
(* Conventions.  Samples are numbered 1..n (numpy numbers them 0..n-1).    *)
(* Probabilities and thresholds are integers in units of 1/ProbScale.      *)
(* Folds are numbered 0..NSplits-1 as in the source.                       *)
(***************************************************************************)
EXTENDS Integers, Sequences, FiniteSets, TLC

\* ------------------------------------------------------------------ bounds
\* Largest dataset explored by the object-level specification.
MaxN == 10
\* Largest dataset explored by the specification of the KFold split alone.
MaxSplitN == 6

\* ------------------------------------------------------- program constants
\* Largest magnitude of the sigmoid parameters of the calibration round trip.
MaxAbsParam == 2
\* values other code may have drawn from the process-wide generator
MaxPriorDraws == 3
\* calls of the sweep a caller makes
MaxRuns == 2

\* KFold(n_splits=5, ...)
NSplits == 5
\* np.linspace(0, 0.99, 100): start, stop (in 1/ProbScale), number of points
ProbScale == 10000
ThresholdStart == 0
ThresholdStop == 9900
NumThresholds == 100
\* ln(0.79 / 0.21) in 1/ProbScale: the log-odds of the probability 1 - 0.21
MPScoreLogOdds == 13249
\* numpy's nan (the value of 0/0), kept apart from every number
NaN == -1

\* ------------------------------------------------------- general helpers
RECURSIVE SumSeq(_)
SumSeq(s) == IF s = <<>> THEN 0 ELSE Head(s) + SumSeq(Tail(s))

Min(S) == CHOOSE x \in S : \A z \in S : x <= z

RECURSIVE SortedSeq(_)
\* the elements of a finite set of integers in ascending order
SortedSeq(S) == IF S = {} THEN <<>> ELSE <<Min(S)>> \o SortedSeq(S \ {Min(S)})

Range(s) == { s[i] : i \in 1..Len(s) }

\* the permutations of 1..n, as sequences
AllShuffles(n) == { p \in [1..n -> 1..n] : \A i, j \in 1..n : i # j => p[i] # p[j] }

\* ------------------------------------------- sklearn KFold (shuffle=True)
\* KFold gives the first n % n_splits folds one sample more than the others.
FoldSizeUneven(n, i) == n \div NSplits

FoldSize(n, i) == (n \div NSplits) + (IF i < n % NSplits THEN 1 ELSE 0)

RECURSIVE FoldStart(_, _)
\* number of shuffled positions taken by the folds before fold i
FoldStart(n, i) == IF i = 0 THEN 0 ELSE FoldStart(n, i - 1) + FoldSize(n, i - 1)

\* the held-out indices of fold i: a slice of the shuffled index array
TestIdx(n, p, i) == { p[j] : j \in (FoldStart(n, i) + 1)..(FoldStart(n, i) + FoldSize(n, i)) }

\* the training indices of fold i: indices[logical_not(test_mask)]
TrainIdx(n, p, i) == (1..n) \ TestIdx(n, p, i)

\* KFold.split raises ValueError when n_splits > n_samples
SplitRaises(n) == NSplits > n

\* ---------------------------------------------------------------- state
VARIABLES
  y,                    \* data["synthesisable"]: the labels, one per sample
  perm,                 \* the index array of the dataset as KFold shuffles it
  model,                \* self.model
  calibrated_model,     \* self.calibrated_model (an attribute __init__ does not set)
  rng,                  \* the generator of the random module (process-wide)
  pc,                   \* position of the running call
  op,                   \* the public operation that is running
  phase,                \* the estimator being swept: "forest", "dummy", "logistic"
  work,                 \* the local variable `model` of the running call
  response,             \* what the fitted estimator of the running call answers
  fold,                 \* number of folds the loop has completed
  train_idx, test_idx,  \* the split of the fold last entered
  held_out,             \* the test indices of the folds entered so far, in order
  predicted_with,       \* the local estimator as it was when it last predicted
  model_at_call,        \* self.model as it was when the operation was called
  predictions_combined, y_test_combined, cv_results,
  thresholds, results,  \* locals of get_precision_recall_curve_data
  pr_data, dummy_pr_data, log_pr_data,
  curves,               \* X, y, X_dummy, y_dummy, X_log, y_log
  error,                \* the exception that ended the call, or "none"
  inverted,             \* the value returned by invert_calibrated_prob
  cal_a, cal_b, raw_p, cal_p,  \* inputs and values of the calibration round trip
  runs,                 \* what a caller's calls of the sweep ended with, in order
  rng_at_call,          \* the process-wide generator as it was when the sweep was called
  fp_radius, fp_bit_length,  \* self._fp_radius, self._fp_bit_length
  last_fp               \* the fingerprint the last scoring call computed

dataVars  == <<y, perm>>
objVars   == <<model, calibrated_model, rng>>
ctlVars   == <<pc, op, phase, error>>
foldVars  == <<work, response, fold, train_idx, test_idx, held_out, predicted_with,
               model_at_call>>
cvVars    == <<predictions_combined, y_test_combined, cv_results>>
sweepVars == <<thresholds, results>>
plotVars  == <<pr_data, dummy_pr_data, log_pr_data, curves, inverted>>
calVars   == <<cal_a, cal_b, raw_p, cal_p>>
callerVars == <<runs, rng_at_call>>
fpVars    == <<fp_radius, fp_bit_length, last_fp>>
vars == <<dataVars, objVars, ctlVars, foldVars, cvVars, sweepVars, plotVars, calVars,
         callerVars, fpVars>>

N == Len(y)

\* ------------------------------------------------------------ the inputs
\* np.random.RandomState(32).shuffle(np.arange(n)), 1-based, for n = 0, 1, ...:
\* the order in which KFold(shuffle=True, random_state=32) and
\* train_test_split(random_state=32) arrange n rows
Seed32Orders ==
  <<
    <<>>,
    <<1>>,
    <<1, 2>>,
    <<3, 1, 2>>,
    <<3, 1, 2, 4>>,
    <<5, 1, 3, 2, 4>>,
    <<6, 2, 1, 3, 5, 4>>,
    <<7, 2, 1, 3, 5, 6, 4>>,
    <<7, 2, 1, 3, 5, 6, 4, 8>>,
    <<3, 2, 7, 9, 1, 5, 6, 4, 8>>,
    <<10, 2, 3, 9, 4, 1, 5, 7, 6, 8>>,
    <<11, 2, 3, 10, 4, 1, 9, 5, 7, 6, 8>>,
    <<1, 10, 3, 11, 12, 2, 5, 4, 9, 7, 6, 8>>
  >>
Seed32Order(n) == Seed32Orders[n + 1]

\* The shuffled index array of a dataset of n samples.
Shuffles(n) == { Seed32Order(n) }

\* Label patterns of the datasets explored: alternating along the shuffled
\* order (every fold holds both labels), alternating along the rows (some
\* folds hold one label), constant.
Labelings(n) ==
  { [i \in 1..n |-> ((CHOOSE j \in 1..n : Seed32Order(n)[j] = i) + b) % 2] : b \in {0, 1} }
    \cup { [i \in 1..n |-> i % 2] }
    \cup { [i \in 1..n |-> c] : c \in {0, 1} }

\* Dataset sizes explored by the object-level specification: every size up to
\* one more than the number of folds, and the largest.
Sizes == (0..(NSplits + 1)) \cup {MaxN}

\* Class-1 probability a fitted forest answers for a sample, by the sample's
\* label (v0 for label 0, v1 for label 1); vote fractions reach 0 and 1.
ForestResponses == [v0 : {0, 3000, ProbScale}, v1 : {0, 3000, ProbScale}]

\* The same for a fitted logistic regression, whose answers are inside (0, 1).
LogisticResponses == [v0 : {3000, 9950}, v1 : {3000, 9950}]

\* The forest answers that differ in what predict returns.
PredictResponses == [v0 : {0, ProbScale}, v1 : {0, ProbScale}]

NoResponse == [v0 |-> 0, v1 |-> 0]

\* Sigmoid parameters (a_, b_) a Platt fit may end with.
CalibParams == { <<-4, 1>>, <<-2, 1>> }

\* random.seed(32); the first values of random.uniform(0, 1), in 1/ProbScale
Seed32Draws == <<774, 2136, 3031, 9002, 4962, 7202, 1002, 5089, 8430, 5227,
                 9447, 8818, 3709, 7, 7552, 1264, 94, 7306, 8428, 8365,
                 9534, 2016, 815, 1207, 9777, 1119, 1595, 200, 493, 382,
                 3530, 1632, 3096, 9288, 1674, 8143, 7383, 5685, 5756, 7701>>

\* the same after random.seed(0) and after random.seed(7)
Seed0Draws == <<8444, 7579, 4205, 2589, 5112, 4049, 7837, 3033, 4765, 5833,
                9081, 5046, 2818, 7558, 6183, 2505, 9097, 9827, 8102, 9021,
                3101, 7298, 8988, 6839, 4721, 1007, 4341, 6108, 9130, 9666,
                4770, 8653, 2604, 8050, 5486, 140, 7197, 3988, 8248, 6681>>
Seed7Draws == <<3238, 1508, 6509, 724, 5358, 3656, 579, 5074, 374, 4336,
                698, 907, 4245, 8268, 1238, 2232, 6274, 9477, 5771, 3966,
                9762, 465, 8584, 2896, 1442, 1177, 3084, 8161, 1807, 5816,
                6389, 3723, 5477, 627, 596, 2059, 6803, 4275, 3141, 5855>>

\* The seed of the dummy classifier (line 709) and the seeds the process-wide
\* generator may have been given by other code.
DummySeed == 32
Seeds == {0, 7, DummySeed}

\* The process-wide generator of the random module: the seed it was last
\* given and the number of values drawn since.
RandomSeed(seed) == [seed |-> seed, pos |-> 0]
Stream(seed) == IF seed = DummySeed THEN Seed32Draws
                ELSE IF seed = 7 THEN Seed7Draws ELSE Seed0Draws

\* random.uniform(0, 1), n times: the values and the generator afterwards.
\* The stream is followed cyclically past the values listed above.
Uniforms(g, n) ==
  [values |-> [k \in 1..n |-> Stream(g.seed)[((g.pos + k - 1) % Len(Stream(g.seed))) + 1]],
   rng |-> [g EXCEPT !.pos = g.pos + n]]

\* a generator nobody has drawn from yet
FreshRng == RandomSeed(0)

\* ------------------------------------------------------------ estimators
NoEstimator == [kind |-> "none", fitted |-> FALSE, on |-> {}, is_self |-> FALSE]

\* RandomForestClassifier(...) as __init__ builds it
NewForest == [kind |-> "forest", fitted |-> FALSE, on |-> {}, is_self |-> TRUE]

\* ProbabilityDummyClassifier(strategy="random_prob"), LogisticRegression(random_state=32)
NewDummy == [kind |-> "dummy", fitted |-> FALSE, on |-> {}, is_self |-> FALSE]
NewLogistic == [kind |-> "logistic", fitted |-> FALSE, on |-> {}, is_self |-> FALSE]

\* copy.copy: another object holding the same attribute values
Copy(m) == [m EXCEPT !.is_self = FALSE]

\* estimator.fit(X[train], y[train]): a forest or a logistic regression is
\* refitted from scratch, ProbabilityDummyClassifier.fit returns None and
\* keeps nothing, a prefit CalibratedClassifierCV refits its calibrators and
\* leaves the forest it wraps as it is.
Fit(m, train) ==
  IF m.kind \in {"dummy", "calibrated"} THEN m
  ELSE [m EXCEPT !.fitted = TRUE, !.on = train]

\* the labels present among the samples idx
Classes(labels, idx) == { labels[i] : i \in idx }

\* LogisticRegression.fit raises ValueError on labels of a single class
FitRaises(m, labels, train) ==
  m.kind = "logistic" /\ Cardinality(Classes(labels, train)) < 2

\* self.model as the object the local variable names leaves it
AfterFit(self_model, before, after) ==
  IF before.is_self THEN [after EXCEPT !.is_self = TRUE] ELSE self_model

\* ------------------------------------------------------------------ Init
NoTable == [thresholds |-> <<>>, tp_test |-> <<>>, fp_test |-> <<>>,
            tn_test |-> <<>>, fn_test |-> <<>>]
NoData == [set |-> FALSE, thresholds |-> <<>>, p_test |-> <<>>, r_test |-> <<>>]
NoCurves == [set |-> FALSE, X |-> <<>>, y |-> <<>>, X_dummy |-> <<>>, y_dummy |-> <<>>,
             X_log |-> <<>>, y_log |-> <<>>]
NoTotals == [set |-> FALSE, TNs |-> 0, FPs |-> 0, FNs |-> 0, TPs |-> 0]
NoCalibration == [set |-> FALSE, a |-> 0, b |-> 0]
NoValue == [set |-> FALSE, raw |-> 0, rounded |-> 0, idx |-> 0]

\* the locals of a call, before the call assigns them
LocalsInit ==
  /\ work = NoEstimator /\ response = NoResponse /\ fold = 0
  /\ train_idx = {} /\ test_idx = {} /\ held_out = <<>>
  /\ predicted_with = NoEstimator /\ model_at_call = NoEstimator
  /\ predictions_combined = <<>> /\ y_test_combined = <<>> /\ cv_results = NoTotals
  /\ thresholds = <<>> /\ results = NoTable
  /\ pr_data = NoData /\ dummy_pr_data = NoData /\ log_pr_data = NoData
  /\ curves = NoCurves /\ inverted = NoValue
  /\ runs = <<>> /\ rng_at_call = FreshRng

CalInit == cal_a = 0 /\ cal_b = 0 /\ raw_p = 0 /\ cal_p = 0

\* MPScore(): self.model is an unfitted forest, self.calibrated_model is not set
SelfInit ==
  /\ model = NewForest
  /\ calibrated_model = NoCalibration
  /\ pc = "idle" /\ op = "none" /\ phase = "none" /\ error = "none"

\* lines 105-106, and the defaults of get_fingerprint_as_bit_counts (line 59)
DefaultFpRadius == 2
DefaultFpBitLength == 1024

\* a fingerprint: the radius it was computed with and its length
NoFingerprint == [set |-> FALSE, radius |-> 0, nbits |-> 0]

\* get_fingerprint_as_bit_counts(mol, nbits=, radius=): the Morgan
\* fingerprint of that radius, a vector of nbits counts
GetFingerprintAsBitCounts(nbits, radius) == [set |-> TRUE, radius |-> radius, nbits |-> nbits]

\* MPScore(param_path=None)
FpDefaultInit ==
  /\ fp_radius = DefaultFpRadius /\ fp_bit_length = DefaultFpBitLength
  /\ last_fp = NoFingerprint

\* the object in a process whose generator nobody has drawn from
ObjInit == SelfInit /\ FpDefaultInit /\ rng = FreshRng

Init ==
  /\ \E n \in Sizes : y \in Labelings(n) /\ perm \in Shuffles(n)
  /\ ObjInit /\ LocalsInit /\ CalInit

\* ------------------------------------------------- restore, training
\* what joblib.load returns for models/mpscore_calibrated.joblib: a fitted
\* calibrated classifier
LoadedModel == [kind |-> "calibrated", fitted |-> TRUE, on |-> {}, is_self |-> TRUE]

\* restore(): self.model = joblib.load(model_path); nothing else is assigned
Restore ==
  /\ pc = "idle"
  /\ model' = LoadedModel
  /\ op' = "restore"
  /\ UNCHANGED <<dataVars, fpVars, callerVars, calibrated_model, rng, pc, phase, error, foldVars, cvVars,
                 sweepVars, plotVars, calVars>>

\* train_test_split(X, y, random_state=32): test_size 0.25 rounded up
CalibSize(n) == (n + 3) \div 4
CalibIdx(n, p) == { p[j] : j \in 1..CalibSize(n) }
TrainSplitIdx(n, p) == { p[j] : j \in (CalibSize(n) + 1)..n }

\* train_using_entire_dataset(data, calibrate)
TrainUsingEntireDataset(calibrate) ==
  /\ pc = "idle"
  /\ op' = "train"
  /\ IF calibrate
       THEN IF N - CalibSize(N) = 0
              \* train_test_split raises ValueError: the train set would be empty
              THEN /\ pc' = "raised" /\ error' = "ValueError"
                   /\ UNCHANGED <<model, calibrated_model>>
              ELSE /\ model' = AfterFit(model, model, Fit(model, TrainSplitIdx(N, perm)))
                   /\ \E ab \in CalibParams :
                        calibrated_model' = [set |-> TRUE, a |-> ab[1], b |-> ab[2]]
                   /\ UNCHANGED <<pc, error>>
       ELSE IF N = 0
              \* fit raises ValueError on an empty array
              THEN /\ pc' = "raised" /\ error' = "ValueError"
                   /\ UNCHANGED <<model, calibrated_model>>
              ELSE /\ model' = AfterFit(model, model, Fit(model, 1..N))
                   /\ UNCHANGED <<calibrated_model, pc, error>>
  /\ UNCHANGED <<dataVars, fpVars, callerVars, rng, phase, foldVars, cvVars, sweepVars, plotVars, calVars>>

\* ------------------------------------------------------- cross_validate
\* model.predict(x_test) of a fitted forest: the class of the larger vote
\* fraction (class 0 on a tie); the only class when it was fitted on one class.
\* A restored calibrated classifier answers with the classes of the forest it
\* wraps, whatever the fold's training labels are.
Predict(m, resp, labels, train, test) ==
  LET cls == Classes(labels, train)
      one(i) == IF m.kind = "forest" /\ Cardinality(cls) = 1 THEN CHOOSE c \in cls : TRUE
                ELSE IF 2 * (IF labels[i] = 1 THEN resp.v1 ELSE resp.v0) > ProbScale
                       THEN 1 ELSE 0
  IN [k \in 1..Len(test) |-> one(test[k])]

\* lines 141-177: the arrays, the KFold, the empty lists; the loop asks for the
\* first split, which raises ValueError when there are fewer samples than folds
CVStart ==
  /\ pc = "idle"
  /\ op' = "cross_validate"
  /\ model_at_call' = model
  /\ \E r \in PredictResponses : response' = r
  /\ IF SplitRaises(N)
       THEN pc' = "raised" /\ error' = "ValueError"
       ELSE pc' = "cv_fold" /\ error' = error
  /\ UNCHANGED <<dataVars, fpVars, callerVars, objVars, phase, work, fold, train_idx, test_idx, held_out,
                 predicted_with, cvVars, sweepVars, plotVars, calVars>>

\* lines 177-189: one pass of the loop over the folds
CVFold ==
  /\ pc = "cv_fold"
  /\ fold < NSplits
  /\ LET train == TrainIdx(N, perm, fold)
         test == SortedSeq(TestIdx(N, perm, fold))
         copied == Copy(model)
         fitted == Fit(copied, train)
         test_predictions == Predict(fitted, response, y, train, test)
     IN /\ train_idx' = train
        /\ test_idx' = TestIdx(N, perm, fold)
        /\ work' = fitted
        /\ model' = AfterFit(model, copied, fitted)
        /\ predicted_with' = fitted
        /\ predictions_combined' = predictions_combined \o test_predictions
        /\ y_test_combined' = y_test_combined \o [k \in 1..Len(test) |-> y[test[k]]]
        /\ held_out' = held_out \o test
  /\ fold' = fold + 1
  /\ UNCHANGED <<dataVars, fpVars, callerVars, calibrated_model, rng, ctlVars, response, model_at_call,
                 cv_results, sweepVars, plotVars, calVars>>

\* a count that does not look at the actual label
CountWhereAnyLabel(actual, predicted, a, same) ==
  Cardinality({ i \in 1..Len(predicted) : (actual[i] = predicted[i]) <=> same })

\* number of positions where the actual label is a and the prediction agrees
\* (same = TRUE) or differs (same = FALSE)
CountWhere(actual, predicted, a, same) ==
  Cardinality({ i \in 1..Len(predicted) :
                  actual[i] = a /\ ((actual[i] = predicted[i]) <=> same) })

\* lines 190-223: the four totals over the combined held-out predictions
CVFinish ==
  /\ pc = "cv_fold"
  /\ fold = NSplits
  /\ cv_results' = [set |-> TRUE,
                    TPs |-> CountWhere(y_test_combined, predictions_combined, 1, TRUE),
                    FNs |-> CountWhere(y_test_combined, predictions_combined, 1, FALSE),
                    TNs |-> CountWhere(y_test_combined, predictions_combined, 0, TRUE),
                    FPs |-> CountWhere(y_test_combined, predictions_combined, 0, FALSE)]
  /\ pc' = "returned"
  /\ UNCHANGED <<dataVars, fpVars, callerVars, objVars, op, phase, error, foldVars, predictions_combined,
                 y_test_combined, sweepVars, plotVars, calVars>>

\* the caller takes the returned value; the locals of the call are gone
Return ==
  /\ pc = "returned"
  /\ pc' = "idle"
  /\ work' = NoEstimator /\ response' = NoResponse /\ fold' = 0
  /\ train_idx' = {} /\ test_idx' = {} /\ held_out' = <<>>
  /\ predicted_with' = NoEstimator /\ model_at_call' = NoEstimator
  /\ predictions_combined' = <<>> /\ y_test_combined' = <<>> /\ cv_results' = NoTotals
  /\ thresholds' = <<>> /\ results' = NoTable
  /\ pr_data' = NoData /\ dummy_pr_data' = NoData /\ log_pr_data' = NoData
  /\ curves' = NoCurves /\ inverted' = NoValue
  /\ UNCHANGED <<dataVars, fpVars, callerVars, objVars, op, phase, error, calVars>>

\* ------------------------------------- get_precision_recall_curve_data
\* np.linspace(start, stop, num): num evenly spaced points, both ends included
Linspace(start, stop, num) ==
  [i \in 1..num |-> start + ((i - 1) * (stop - start)) \div (num - 1)]

\* a grid that ends at 1
ThresholdGridToOne == Linspace(ThresholdStart, ProbScale, NumThresholds)

\* line 397
ThresholdGrid == Linspace(ThresholdStart, ThresholdStop, NumThresholds)

\* a dummy that draws from the process-wide generator as it finds it
DummyPredictProbaUnseeded(g, n) == Uniforms(g, n)

\* lines 707-711: random.seed(32), then one random.uniform(0, 1) per sample
DummyPredictProba(g, n) == Uniforms(RandomSeed(DummySeed), n)

\* model.predict_proba(X_test), the class-1 column.  The dummy seeds the
\* process-wide generator with 32 and draws one value per sample.
PredictProba(m, g, resp, labels, test) ==
  IF m.kind = "dummy"
    THEN DummyPredictProba(g, Len(test)).values
    ELSE [k \in 1..Len(test) |-> IF labels[test[k]] = 1 THEN resp.v1 ELSE resp.v0]

\* a forest fitted on one class answers one column: prob[1] raises IndexError;
\* a restored calibrated classifier keeps the two columns of the forest it wraps
ProbaRaises(m, labels, train) ==
  m.kind = "forest" /\ Cardinality(Classes(labels, train)) < 2

\* the generator after predict_proba(X_test)
RngAfter(m, g, test) ==
  IF m.kind = "dummy" THEN DummyPredictProba(g, Len(test)).rng ELSE g

\* the comparison turned around: positive iff the probability is below
ClassifyBelow(probs, threshold) ==
  [k \in 1..Len(probs) |-> IF probs[k] < threshold THEN 1 ELSE 0]

\* line 408-410: positive iff the class-1 probability exceeds the threshold
Classify(probs, threshold) ==
  [k \in 1..Len(probs) |-> IF probs[k] > threshold THEN 1 ELSE 0]

\* sklearn confusion_matrix(y_true, y_pred): one row and column per label
\* present in y_true or y_pred, in ascending order
CMLabels(yt, yp) == SortedSeq(Range(yt) \cup Range(yp))

ConfusionMatrix(yt, yp) ==
  LET L == CMLabels(yt, yp)
  IN [i \in 1..Len(L) |-> [j \in 1..Len(L) |->
        Cardinality({ k \in 1..Len(yt) : yt[k] = L[i] /\ yp[k] = L[j] })]]

\* cm[1, 1] raises IndexError when a single label is present
CMRaises(yt, yp) == Len(CMLabels(yt, yp)) < 2

\* counts read off a matrix with the two cells of the false counts exchanged
FoldCountsSwapped(yt, yp) ==
  LET cm == ConfusionMatrix(yt, yp)
  IN [tp |-> cm[2][2], fp |-> cm[2][1], tn |-> cm[1][1], fn |-> cm[2][1]]

\* lines 417-421: cm[1, 1], cm[0, 1], cm[0, 0], cm[1, 0]
FoldCounts(yt, yp) ==
  LET cm == ConfusionMatrix(yt, yp)
  IN [tp |-> cm[2][2], fp |-> cm[1][2], tn |-> cm[1][1], fn |-> cm[2][1]]

\* lines 406-421 for every threshold of the grid: the predictions, whether the
\* confusion matrix has a single label, and the four counts otherwise
FoldPasses(ths, probs, yt) ==
  [t \in 1..Len(ths) |->
     LET yp == Classify(probs, ths[t])
     IN IF CMRaises(yt, yp)
          THEN [raised |-> TRUE, c |-> [tp |-> 0, fp |-> 0, tn |-> 0, fn |-> 0]]
          ELSE [raised |-> FALSE, c |-> FoldCounts(yt, yp)]] \o <<>>

\* the pass of the threshold loop at which cm[1, 1] raises IndexError, or one
\* more than the number of thresholds when none does
StopIndex(passes) ==
  LET bad == { t \in 1..Len(passes) : passes[t].raised }
  IN IF bad = {} THEN Len(passes) + 1 ELSE Min(bad)

\* a table that keeps one running sum per threshold and metric
RecordFoldSummed(res, ths, passes, stop) ==
  LET done == SubSeq(ths, 1, stop - 1)
      put(tab, field) ==
        [pos \in 1..Len(done) |->
           <<passes[pos].c[field] + (IF tab = <<>> THEN 0 ELSE tab[pos][1])>>]
  IN [thresholds |-> done,
      tp_test |-> put(res.tp_test, "tp"), fp_test |-> put(res.fp_test, "fp"),
      tn_test |-> put(res.tn_test, "tn"), fn_test |-> put(res.fn_test, "fn")]

\* lines 422-430 for the passes before stop, in order (the grid holds no value
\* twice): a threshold is listed when it is not listed yet; each metric gets
\* one list per grid point when it has none, and the fold's value is appended
\* to the list at the threshold's position in results["thresholds"]; at[pos]
\* are the passes whose threshold stands at position pos
RecordFold(res, ths, passes, stop) ==
  LET done == SubSeq(ths, 1, stop - 1)
      listed == Range(res.thresholds)
      thresholds_new == IF res.thresholds = <<>> THEN done
                        ELSE res.thresholds \o SelectSeq(done, LAMBDA v : v \notin listed)
      at == [pos \in 1..NumThresholds |->
               IF pos > Len(thresholds_new) THEN <<>>
               ELSE IF pos <= Len(done) /\ done[pos] = thresholds_new[pos] THEN <<pos>>
               ELSE SortedSeq({ t \in 1..Len(done) : done[t] = thresholds_new[pos] })] \o <<>>
      put(tab, field) ==
        IF Len(done) = 0 THEN tab
        ELSE LET t0 == IF tab = <<>> THEN [k \in 1..NumThresholds |-> <<>>] ELSE tab
             IN [pos \in 1..NumThresholds |->
                   t0[pos] \o [k \in 1..Len(at[pos]) |-> passes[at[pos][k]].c[field]]] \o <<>>
  IN [thresholds |-> thresholds_new,
      tp_test |-> put(res.tp_test, "tp"), fp_test |-> put(res.fp_test, "fp"),
      tn_test |-> put(res.tn_test, "tn"), fn_test |-> put(res.fn_test, "fn")]

\* lines 406-430 for one fold: the table, and whether IndexError ended the loop
SweepThresholds(res, ths, probs, yt) ==
  LET passes == FoldPasses(ths, probs, yt)
      stop == StopIndex(passes)
  IN [results |-> RecordFold(res, ths, passes, stop), raised |-> stop <= Len(ths)]

\* num / den rounded to the nearest integer, halves to the even neighbour
RoundHalfEven(num, den) ==
  LET q == num \div den
      r == num % den
  IN IF 2 * r > den THEN q + 1
     ELSE IF 2 * r < den THEN q
     ELSE IF q % 2 = 0 THEN q ELSE q + 1

\* round(num / den, 3) in thousandths; numpy gives nan for 0/0 (a warning)
Round3(num, den) == IF den = 0 THEN NaN ELSE RoundHalfEven(1000 * num, den)

\* lines 431-453, the columns the plot reads: thresholds, p_test, r_test
Aggregate(res) ==
  [set |-> TRUE,
   thresholds |-> res.thresholds,
   p_test |-> [i \in 1..NumThresholds |->
                 Round3(SumSeq(res.tp_test[i]), SumSeq(res.tp_test[i]) + SumSeq(res.fp_test[i]))],
   r_test |-> [i \in 1..NumThresholds |->
                 Round3(SumSeq(res.tp_test[i]), SumSeq(res.tp_test[i]) + SumSeq(res.fn_test[i]))]]

ResponsesOf(kind) ==
  IF kind = "forest" THEN ForestResponses
  ELSE IF kind \in {"logistic", "calibrated"} THEN LogisticResponses
  ELSE {NoResponse}

\* lines 396-401 for the estimator est: the table, the grid, the arrays and the
\* KFold; the loop asks for the first split, which raises ValueError when
\* there are fewer samples than folds
SweepStart(ph, est) ==
  /\ phase' = ph
  /\ work' = est
  /\ \E r \in ResponsesOf(est.kind) : response' = r
  /\ results' = NoTable
  /\ thresholds' = ThresholdGrid
  /\ fold' = 0 /\ train_idx' = {} /\ test_idx' = {} /\ held_out' = <<>>
  /\ predicted_with' = NoEstimator
  /\ IF SplitRaises(N)
       THEN pc' = "raised" /\ error' = "ValueError"
       ELSE pc' = "sweep_fold" /\ error' = error

\* lines 401-430: one pass of the loop over the folds
SweepFold ==
  /\ pc = "sweep_fold"
  /\ fold < NSplits
  /\ LET train == TrainIdx(N, perm, fold)
         test == SortedSeq(TestIdx(N, perm, fold))
         y_test == [k \in 1..Len(test) |-> y[test[k]]]
     IN /\ train_idx' = train
        /\ test_idx' = TestIdx(N, perm, fold)
        /\ held_out' = held_out \o test
        /\ IF FitRaises(work, y, train)
             THEN /\ pc' = "raised" /\ error' = "ValueError"
                  /\ predicted_with' = NoEstimator
                  /\ UNCHANGED <<work, model, rng, results>>
             ELSE LET fitted == Fit(work, train)
                      y_probs_test == PredictProba(fitted, rng, response, y, test)
                      swept == SweepThresholds(results, thresholds, y_probs_test, y_test)
                  IN /\ work' = fitted
                     /\ model' = AfterFit(model, work, fitted)
                     /\ predicted_with' = fitted
                     /\ rng' = RngAfter(fitted, rng, test)
                     /\ IF ProbaRaises(fitted, y, train)
                          THEN /\ pc' = "raised" /\ error' = "IndexError"
                               /\ UNCHANGED results
                          ELSE /\ results' = swept.results
                               /\ IF swept.raised
                                    THEN pc' = "raised" /\ error' = "IndexError"
                                    ELSE UNCHANGED <<pc, error>>
  /\ fold' = fold + 1
  /\ UNCHANGED <<dataVars, fpVars, callerVars, calibrated_model, op, phase, response, model_at_call, cvVars,
                 thresholds, plotVars, calVars>>

\* lines 431-453 and the return into plot_precision_recall_curve
SweepFinish ==
  /\ pc = "sweep_fold"
  /\ fold = NSplits
  /\ CASE phase = "forest" ->
            /\ pr_data' = Aggregate(results) /\ pc' = "plot_dummy"
            /\ UNCHANGED <<dummy_pr_data, log_pr_data>>
       [] phase = "dummy" ->
            /\ dummy_pr_data' = Aggregate(results) /\ pc' = "plot_log"
            /\ UNCHANGED <<pr_data, log_pr_data>>
       [] OTHER ->
            /\ log_pr_data' = Aggregate(results) /\ pc' = "plot_curves"
            /\ UNCHANGED <<pr_data, dummy_pr_data>>
  /\ UNCHANGED <<dataVars, fpVars, callerVars, objVars, op, phase, error, foldVars, cvVars, sweepVars,
                 curves, inverted, calVars>>

\* ------------------------------------------------ invert_calibrated_prob
\* x / d rounded to the nearest integer, for d > 0
RoundNearest(x, d) == (2 * x + d) \div (2 * d)

\* x / a rounded to the nearest integer, for a # 0
DivRound(x, a) == IF a > 0 THEN RoundNearest(x, a) ELSE RoundNearest(-x, -a)

\* A probability prob strictly between 0 and 1 is given by its log-odds
\* lo = ln(prob / (1 - prob)), in 1/ProbScale; ln((1 - prob) / prob) is -lo.

\* the logarithm with numerator and denominator exchanged
InvertSwappedLogit(lo, a, b) == DivRound(lo - b * ProbScale, a)

\* line 688: (log((1 - prob) / prob) - b) / a, in 1/ProbScale
InvertCalibratedProb(lo, a, b) == DivRound((-lo) - b * ProbScale, a)

\* The sigmoid calibrator fitted at lines 246-249 maps the raw probability
\* raw to 1 / (1 + exp(a * raw + b)), whose log-odds is -(a * raw + b).
SigmoidCalibrate(a, b, raw) == -(a * raw + b * ProbScale)

\* round(x, 2) of a value in 1/ProbScale
Round2(x) == 100 * RoundNearest(x, 100)

\* [round(i, 2) for i in thresholds].index(v): 0 when v is not in the list
RoundedIndex(ths, v) ==
  LET hits == { i \in 1..Len(ths) : Round2(ths[i]) = v }
  IN IF hits = {} THEN 0 ELSE Min(hits)

\* ------------------------------------------ plot_precision_recall_curve
\* np.nan_to_num of one value
NanToNum(v) == IF v = NaN THEN 0 ELSE v

\* lines 456-458: the forest sweep gets a copy of self.model
PlotStart ==
  /\ pc = "idle"
  /\ op' = "plot"
  /\ model_at_call' = model
  /\ SweepStart("forest", Copy(model))
  /\ UNCHANGED <<dataVars, fpVars, callerVars, objVars, cvVars, plotVars, calVars>>

\* lines 459 and 461: the random baseline
PlotDummy ==
  /\ pc = "plot_dummy"
  /\ SweepStart("dummy", NewDummy)
  /\ UNCHANGED <<dataVars, fpVars, callerVars, objVars, op, model_at_call, cvVars, plotVars, calVars>>

\* lines 460 and 462-464: the logistic baseline
PlotLog ==
  /\ pc = "plot_log"
  /\ SweepStart("logistic", NewLogistic)
  /\ UNCHANGED <<dataVars, fpVars, callerVars, objVars, op, model_at_call, cvVars, plotVars, calVars>>

\* lines 465-485: the points of the three curves
PlotCurves ==
  /\ pc = "plot_curves"
  /\ curves' = [set |-> TRUE,
                X_log |-> [i \in 1..Len(log_pr_data.r_test) |-> NanToNum(log_pr_data.r_test[i])],
                y_log |-> [i \in 1..Len(log_pr_data.p_test) |-> NanToNum(log_pr_data.p_test[i])],
                X_dummy |-> [i \in 1..Len(dummy_pr_data.r_test) |-> NanToNum(dummy_pr_data.r_test[i])],
                y_dummy |-> [i \in 1..Len(dummy_pr_data.p_test) |-> NanToNum(dummy_pr_data.p_test[i])],
                X |-> pr_data.r_test,
                y |-> pr_data.p_test]
  /\ pc' = "plot_invert"
  /\ UNCHANGED <<dataVars, fpVars, callerVars, objVars, op, phase, error, foldVars, cvVars, sweepVars,
                 pr_data, dummy_pr_data, log_pr_data, inverted, calVars>>

\* invert_calibrated_prob(1 - 0.21, calibrated_model=self.calibrated_model):
\* reading an attribute that was never assigned raises AttributeError
InvertOutcome ==
  IF ~calibrated_model.set
    THEN [error |-> "AttributeError", value |-> NoValue]
    ELSE LET raw == InvertCalibratedProb(MPScoreLogOdds, calibrated_model.a,
                                         calibrated_model.b)
         IN [error |-> "none",
             value |-> [set |-> TRUE, raw |-> raw, rounded |-> Round2(raw), idx |-> 0]]

\* lines 531-612: the inversion, the index of the rounded value among the
\* rounded thresholds (ValueError when absent), the drawing
PlotInvert ==
  /\ pc = "plot_invert"
  /\ LET out == InvertOutcome
         idx == RoundedIndex(pr_data.thresholds, out.value.rounded)
     IN IF out.error # "none"
          THEN /\ pc' = "raised" /\ error' = out.error
               /\ UNCHANGED inverted
          ELSE /\ inverted' = [out.value EXCEPT !.idx = idx]
               /\ IF idx = 0
                    THEN pc' = "raised" /\ error' = "ValueError"
                    ELSE pc' = "returned" /\ error' = error
  /\ UNCHANGED <<dataVars, fpVars, callerVars, objVars, op, phase, foldVars, cvVars, sweepVars,
                 pr_data, dummy_pr_data, log_pr_data, curves, calVars>>

\* a caller inverts the MPScore threshold on the object's calibrated model
InvertDirect ==
  /\ pc = "idle"
  /\ op' = "invert"
  /\ LET out == InvertOutcome
     IN IF out.error # "none"
          THEN /\ pc' = "raised" /\ error' = out.error
               /\ UNCHANGED inverted
          ELSE /\ inverted' = out.value
               /\ pc' = "returned" /\ error' = error
  /\ UNCHANGED <<dataVars, fpVars, callerVars, objVars, phase, foldVars, cvVars, sweepVars,
                 pr_data, dummy_pr_data, log_pr_data, curves, calVars>>

\* ------------------------------------------ plot_calibration_curve
\* lines 321-328: the rows left to the first split's train part, split again
\* the same way; the forest is fitted on the second train part
CalibrationCurveFitIdx(n, p) ==
  LET m == n - CalibSize(n)
      q == Seed32Order(m)
  IN { p[CalibSize(n) + q[j]] : j \in (CalibSize(m) + 1)..m }

\* plot_calibration_curve(data): the two splits (ValueError when a train part
\* would be empty), self.model.fit on the second train part (line 330), the
\* predictions of line 332 (IndexError at [0][1] when the forest saw one
\* class); the drawing that follows leaves the object as it is
PlotCalibrationCurve ==
  /\ pc = "idle"
  /\ op' = "plot_calibration_curve"
  /\ LET m == N - CalibSize(N)
         train == CalibrationCurveFitIdx(N, perm)
         fitted == Fit(model, train)
     IN IF m = 0 \/ m - CalibSize(m) = 0
          THEN /\ pc' = "raised" /\ error' = "ValueError"
               /\ UNCHANGED model
          ELSE /\ model' = AfterFit(model, model, fitted)
               /\ IF ProbaRaises(fitted, y, train)
                    THEN pc' = "raised" /\ error' = "IndexError"
                    ELSE pc' = "returned" /\ error' = error
  /\ UNCHANGED <<dataVars, fpVars, callerVars, calibrated_model, rng, phase, foldVars, cvVars,
                 sweepVars, plotVars, calVars>>

\* --------------------------------------- the KFold split on its own
\* for train, test in KFold(n_splits=5, shuffle=True, random_state=32).split(X, y)
\* (lines 144 and 177, lines 400 and 401), for every shuffle of the indices
SplitInit ==
  /\ \E n \in 0..MaxSplitN : y = [i \in 1..n |-> 0] /\ perm \in AllShuffles(n)
  /\ ObjInit /\ LocalsInit /\ CalInit

\* the generator yields the next (train, test) pair
SplitYield ==
  /\ pc = "idle"
  /\ ~SplitRaises(N)
  /\ fold < NSplits
  /\ train_idx' = TrainIdx(N, perm, fold)
  /\ test_idx' = TestIdx(N, perm, fold)
  /\ held_out' = held_out \o SortedSeq(TestIdx(N, perm, fold))
  /\ fold' = fold + 1
  /\ UNCHANGED <<dataVars, fpVars, callerVars, objVars, ctlVars, work, response, predicted_with, model_at_call,
                 cvVars, sweepVars, plotVars, calVars>>

\* fewer samples than folds: the first request raises ValueError
SplitRaise ==
  /\ pc = "idle"
  /\ SplitRaises(N)
  /\ pc' = "raised" /\ error' = "ValueError"
  /\ UNCHANGED <<dataVars, fpVars, callerVars, objVars, op, phase, foldVars, cvVars, sweepVars, plotVars, calVars>>

SplitNext == SplitYield \/ SplitRaise

SplitSpec == SplitInit /\ [][SplitNext]_vars

\* ------------------------------- the calibration round trip on its own
\* what a float division by zero may yield: nan, inf, -inf (as strings, apart
\* from every probability)
NonFinite == {"nan", "inf", "-inf"}

\* raw probabilities 0, 0.1, ..., 1 in 1/ProbScale
RawProbs == { k * (ProbScale \div 10) : k \in 0..10 }

CalSpecInit ==
  /\ y = <<>> /\ perm = <<>>
  /\ ObjInit /\ LocalsInit
  /\ cal_a \in (-MaxAbsParam)..MaxAbsParam
  /\ cal_b \in (-MaxAbsParam)..MaxAbsParam
  /\ raw_p \in RawProbs
  /\ cal_p = 0

\* the fitted calibrator maps the raw probability
CalForward ==
  /\ pc = "idle"
  /\ cal_p' = SigmoidCalibrate(cal_a, cal_b, raw_p)
  /\ pc' = "calibrated"
  /\ UNCHANGED <<dataVars, fpVars, callerVars, objVars, op, phase, error, foldVars, cvVars, sweepVars, plotVars,
                 cal_a, cal_b, raw_p>>

\* invert_calibrated_prob on the calibrated probability.  When a_ is 0 the
\* division of line 688 yields a value that is no number (nan, inf or -inf,
\* with a RuntimeWarning) for the numpy.float64 a_ and b_ of a fitted sklearn
\* calibrator, and raises ZeroDivisionError for a_ and b_ that are plain
\* Python numbers.
CalInvert ==
  /\ pc = "calibrated"
  /\ IF cal_a = 0
       THEN \/ /\ pc' = "returned" /\ error' = error
               /\ \E v \in NonFinite :
                    inverted' = [NoValue EXCEPT !.set = TRUE, !.raw = v]
            \/ /\ pc' = "raised" /\ error' = "ZeroDivisionError"
               /\ UNCHANGED inverted
       ELSE /\ inverted' = [NoValue EXCEPT !.set = TRUE,
                                           !.raw = InvertCalibratedProb(cal_p, cal_a, cal_b)]
            /\ pc' = "returned" /\ error' = error
  /\ UNCHANGED <<dataVars, fpVars, callerVars, objVars, op, phase, foldVars, cvVars, sweepVars,
                 pr_data, dummy_pr_data, log_pr_data, curves, calVars>>

CalNext == CalForward \/ CalInvert

CalSpec == CalSpecInit /\ [][CalNext]_vars

\* ------------------- the sweep of the random baseline, called twice
\* states the process-wide generator may be in when the caller starts
RngStates == [seed : Seeds, pos : 0..MaxPriorDraws]

\* datasets of the baseline runs: too small to split, the smallest that
\* splits, the largest
DummySizes == {NSplits - 1, NSplits, MaxN}

DummyInit ==
  /\ \E n \in DummySizes : y \in Labelings(n) /\ perm \in Shuffles(n)
  /\ SelfInit /\ FpDefaultInit /\ LocalsInit /\ CalInit
  /\ rng \in RngStates

\* other code of the process draws from the generator of the random module
DrawElsewhere ==
  /\ pc = "idle"
  /\ rng.pos < MaxPriorDraws
  /\ rng' = Uniforms(rng, 1).rng
  /\ UNCHANGED <<dataVars, fpVars, callerVars, model, calibrated_model, ctlVars, foldVars, cvVars,
                 sweepVars, plotVars, calVars>>

\* get_precision_recall_curve_data(data, model=dummy), as lines 459 and 461 call it
SweepCall ==
  /\ pc = "idle"
  /\ Len(runs) < MaxRuns
  /\ op' = "sweep"
  /\ rng_at_call' = rng
  /\ SweepStart("dummy", NewDummy)
  /\ UNCHANGED <<dataVars, fpVars, objVars, model_at_call, cvVars, plotVars, calVars, runs>>

\* line 453: the caller receives the table; the locals of the call are gone
SweepReturn ==
  /\ pc = "sweep_fold"
  /\ op = "sweep"
  /\ fold = NSplits
  /\ runs' = Append(runs, [error |-> "none", table |-> results,
                           data |-> Aggregate(results), rng_before |-> rng_at_call])
  /\ pc' = "idle"
  /\ work' = NoEstimator /\ response' = NoResponse /\ fold' = 0
  /\ train_idx' = {} /\ test_idx' = {} /\ held_out' = <<>>
  /\ predicted_with' = NoEstimator
  /\ thresholds' = <<>> /\ results' = NoTable
  /\ UNCHANGED <<dataVars, fpVars, objVars, op, phase, error, model_at_call, cvVars,
                 plotVars, calVars, rng_at_call>>

\* the call raised: the caller receives the exception and no table
SweepAbort ==
  /\ pc = "raised"
  /\ op = "sweep"
  /\ runs' = Append(runs, [error |-> error, table |-> NoTable,
                           data |-> NoData, rng_before |-> rng_at_call])
  /\ pc' = "idle" /\ error' = "none"
  /\ work' = NoEstimator /\ response' = NoResponse /\ fold' = 0
  /\ train_idx' = {} /\ test_idx' = {} /\ held_out' = <<>>
  /\ predicted_with' = NoEstimator
  /\ thresholds' = <<>> /\ results' = NoTable
  /\ UNCHANGED <<dataVars, fpVars, objVars, op, phase, model_at_call, cvVars, plotVars,
                 calVars, rng_at_call>>

DummyNext == DrawElsewhere \/ SweepCall \/ SweepFold \/ SweepReturn \/ SweepAbort

DummySpec == DummyInit /\ [][DummyNext]_vars

\* ------------------------------------------- scoring one molecule
\* fp_radius and fp_bit_length a parameter file may hold (lines 117-118)
FpRadii == {1, DefaultFpRadius, 3}
FpBitLengths == {512, DefaultFpBitLength, 2048}

\* MPScore(param_path=None) or MPScore(param_path=file)
ScoreInit ==
  /\ \E n \in DummySizes : y \in Labelings(n) /\ perm \in Shuffles(n)
  /\ SelfInit /\ LocalsInit /\ CalInit /\ rng = FreshRng
  /\ fp_radius \in FpRadii /\ fp_bit_length \in FpBitLengths
  /\ last_fp = NoFingerprint

\* self.model.predict / predict_proba on the vector fp: NotFittedError before
\* any fit; ValueError when the vector has not the length of the training
\* fingerprints, which main() builds with _fp_radius and _fp_bit_length
\* (lines 668-673)
ScoreOutcome(fp) ==
  IF ~model.fitted THEN "NotFittedError"
  ELSE IF fp.nbits # fp_bit_length THEN "ValueError"
  ELSE "none"

\* the fingerprint predict computes (line 286)
PredictFingerprint ==
  GetFingerprintAsBitCounts(DefaultFpBitLength, DefaultFpRadius)

\* the fingerprint predict_proba computes (lines 311-315)
PredictProbaFingerprint ==
  GetFingerprintAsBitCounts(fp_bit_length, fp_bit_length)

\* predict(mol), lines 286-287
ScorePredict ==
  /\ pc = "idle"
  /\ op' = "predict"
  /\ last_fp' = PredictFingerprint
  /\ LET e == ScoreOutcome(PredictFingerprint)
     IN IF e = "none" THEN pc' = "returned" /\ error' = error
                      ELSE pc' = "raised" /\ error' = e
  /\ UNCHANGED <<dataVars, callerVars, objVars, phase, foldVars, cvVars, sweepVars,
                 plotVars, calVars, fp_radius, fp_bit_length>>

\* predict_proba(mol), lines 311-316
ScorePredictProba ==
  /\ pc = "idle"
  /\ op' = "predict_proba"
  /\ last_fp' = PredictProbaFingerprint
  /\ LET e == ScoreOutcome(PredictProbaFingerprint)
     IN IF e = "none" THEN pc' = "returned" /\ error' = error
                      ELSE pc' = "raised" /\ error' = e
  /\ UNCHANGED <<dataVars, callerVars, objVars, phase, foldVars, cvVars, sweepVars,
                 plotVars, calVars, fp_radius, fp_bit_length>>

ScoreNext ==
  \/ \E calibrate \in BOOLEAN : TrainUsingEntireDataset(calibrate)
  \/ PlotCalibrationCurve
  \/ ScorePredict
  \/ ScorePredictProba
  \/ Return

ScoreSpec == ScoreInit /\ [][ScoreNext]_vars

\* ------------------------------------------------------ specifications
Next ==
  \/ Restore
  \/ \E calibrate \in BOOLEAN : TrainUsingEntireDataset(calibrate)
  \/ PlotCalibrationCurve
  \/ CVStart
  \/ CVFold
  \/ CVFinish
  \/ PlotStart
  \/ SweepFold
  \/ SweepFinish
  \/ PlotDummy
  \/ PlotLog
  \/ PlotCurves
  \/ PlotInvert
  \/ InvertDirect
  \/ Return

Spec == Init /\ [][Next]_vars

\* ------------------------------------------------------------ claims
NoRepeat(s) == \A i, j \in 1..Len(s) : i # j => s[i] # s[j]

\* C1: the folds of one round partition the index set: within a fold the train
\* and test indices are disjoint and cover all indices; no index is held out
\* twice; after the last fold every index has been held out.
C1_FoldsPartition ==
  /\ fold > 0 => /\ train_idx \cap test_idx = {}
                 /\ train_idx \cup test_idx = 1..N
  /\ NoRepeat(held_out)
  /\ Range(held_out) \subseteq 1..N
  /\ fold = NSplits => Range(held_out) = 1..N

\* a round of folds of unequal sizes over a shuffled index array has ended
C1_Witness ==
  /\ fold = NSplits /\ N % NSplits # 0
  /\ perm # [i \in 1..N |-> i]
  /\ Len(held_out) = N

\* C2: the four counts recorded for a threshold and a fold add up to the size
\* of that fold's held-out set.
C2_CountsSumToFoldSize ==
  (phase # "none" /\ results.tp_test # <<>>) =>
    \A pos \in 1..Len(results.tp_test) :
      \A j \in 1..Len(results.tp_test[pos]) :
        results.tp_test[pos][j] + results.fp_test[pos][j]
          + results.tn_test[pos][j] + results.fn_test[pos][j]
          = Cardinality(TestIdx(N, perm, j - 1))

\* all folds recorded, with a fold of three samples whose four counts are not
\* all in one cell
C2_Witness ==
  /\ pc = "sweep_fold" /\ fold = NSplits
  /\ \E pos \in 1..NumThresholds :
       /\ Len(results.tp_test[pos]) = NSplits
       /\ results.tp_test[pos][1] > 0 /\ results.fp_test[pos][1] > 0
       /\ Cardinality(TestIdx(N, perm, 0)) >= 2

\* C3: within a fold, recall tp / (tp + fn) does not increase along the grid.
\* The number of actual positives tp + fn of a fold is the same at every
\* threshold, so recall is defined at all thresholds of the fold or at none,
\* and recall(t2) <= recall(t1) for any t1 < t2 follows from the comparison of
\* each grid point with the next one.
C3_RecallNonIncreasing ==
  (pc = "sweep_fold" /\ fold >= 1 /\ results.tp_test # <<>>) =>
    \A p \in 1..(Len(results.tp_test) - 1) :
      (Len(results.tp_test[p]) >= fold /\ Len(results.tp_test[p + 1]) >= fold) =>
        /\ thresholds[p] < thresholds[p + 1]
        /\ results.tp_test[p][fold] + results.fn_test[p][fold]
             = results.tp_test[p + 1][fold] + results.fn_test[p + 1][fold]
        /\ results.tp_test[p + 1][fold]
             * (results.tp_test[p][fold] + results.fn_test[p][fold])
             <= results.tp_test[p][fold]
                  * (results.tp_test[p + 1][fold] + results.fn_test[p + 1][fold])

\* a fold whose recall is 1 at the lowest threshold and 0 at the highest
C3_Witness ==
  /\ pc = "sweep_fold" /\ fold >= 1
  /\ results.tp_test # <<>>
  /\ Len(results.tp_test[NumThresholds]) >= fold
  /\ results.tp_test[1][fold] > 0 /\ results.fn_test[1][fold] = 0
  /\ results.tp_test[NumThresholds][fold] = 0 /\ results.fn_test[NumThresholds][fold] > 0

StrictlyIncreasing(s) == \A i \in 1..(Len(s) - 1) : s[i] < s[i + 1]

\* C4 as amended: the grid is a strictly increasing sequence of 100 points that
\* starts at 0 and ends at 0.99, in steps of 0.01; 1 is not in it.
C4_GridEndsBelowOne ==
  thresholds # <<>> =>
    /\ Len(thresholds) = 100
    /\ StrictlyIncreasing(thresholds)
    /\ thresholds[1] = 0
    /\ 100 * thresholds[Len(thresholds)] = 99 * ProbScale
    /\ \A i \in 1..Len(thresholds) : 100 * thresholds[i] = (i - 1) * ProbScale

\* C4 as stated: 100 strictly increasing points in [0, 1], first 0 and last 1
C4_GridIncludesOne ==
  thresholds # <<>> =>
    /\ Len(thresholds) = 100
    /\ StrictlyIncreasing(thresholds)
    /\ \A i \in 1..Len(thresholds) : 0 <= thresholds[i] /\ thresholds[i] <= ProbScale
    /\ thresholds[1] = 0
    /\ thresholds[Len(thresholds)] = ProbScale

\* a sweep has built its grid and run a fold over it
C4_Witness == pc = "sweep_fold" /\ fold >= 1 /\ thresholds # <<>> /\ results.thresholds = thresholds

\* C5 as stated: a precision or recall that is undefined at a threshold is
\* reported as NaN by the sweep and is not replaced by zero in the curve of any
\* of the three estimators.
C5_UndefinedNeverZero ==
  curves.set =>
    /\ \A i \in 1..Len(pr_data.p_test) :
         /\ pr_data.p_test[i] = NaN => curves.y[i] = NaN
         /\ pr_data.r_test[i] = NaN => curves.X[i] = NaN
    /\ \A i \in 1..Len(log_pr_data.p_test) :
         /\ log_pr_data.p_test[i] = NaN => curves.y_log[i] = NaN
         /\ log_pr_data.r_test[i] = NaN => curves.X_log[i] = NaN
    /\ \A i \in 1..Len(dummy_pr_data.p_test) :
         /\ dummy_pr_data.p_test[i] = NaN => curves.y_dummy[i] = NaN
         /\ dummy_pr_data.r_test[i] = NaN => curves.X_dummy[i] = NaN

FittedOnlyOn(m, train, test) ==
  IF m.kind = "dummy" THEN ~m.fitted /\ m.on = {}
  ELSE m.fitted /\ m.on = train /\ m.on \cap test = {}

\* C6: the estimator that predicts a fold's held-out set is fitted on that
\* fold's training indices only, and self.model is, throughout cross_validate
\* and plot_precision_recall_curve, the value it had when the call began.
C6_NoLeakAcrossFolds ==
  /\ predicted_with # NoEstimator =>
       /\ FittedOnlyOn(predicted_with, train_idx, test_idx)
       /\ ~predicted_with.is_self
  /\ (op \in {"cross_validate", "plot"} /\ pc # "idle") => model = model_at_call

CountLabel(labels, a) == Cardinality({ i \in 1..Len(labels) : labels[i] = a })

\* C7: on return of cross_validate the four totals add up to the dataset
\* size, TPs + FNs is the number of samples of label 1 and TNs + FPs the
\* number of samples of label 0.
C7_TotalsCoverDataset ==
  cv_results.set =>
    /\ cv_results.TPs + cv_results.FPs + cv_results.TNs + cv_results.FNs = N
    /\ cv_results.TPs + cv_results.FNs = CountLabel(y, 1)
    /\ cv_results.TNs + cv_results.FPs = CountLabel(y, 0)
    /\ Len(predictions_combined) = N /\ Len(y_test_combined) = N

\* totals of a dataset with both labels, with correct and wrong predictions
C7_Witness ==
  /\ cv_results.set /\ N >= 6
  /\ cv_results.TPs > 0 /\ cv_results.FPs > 0
  /\ cv_results.TNs + cv_results.FNs = 0

\* sigmoid(a * raw + b) by its log-odds, a * raw + b, in 1/ProbScale
StandardSigmoid(a, b, raw) == a * raw + b * ProbScale

\* C8 as amended: invert_calibrated_prob inverts the map of the fitted
\* calibrator, calibrated = 1 / (1 + exp(a * raw + b)): for a # 0 the
\* inversion of the calibrated value of a raw probability is that probability.
C8_InvertsCalibratorMap ==
  (pc = "returned" /\ inverted.set /\ cal_a # 0) =>
    /\ cal_p = SigmoidCalibrate(cal_a, cal_b, raw_p)
    /\ inverted.raw = raw_p

\* C8 as stated: invert_calibrated_prob inverts calibrated = sigmoid(a * raw + b)
C8_InvertsStandardSigmoid ==
  (pc = "returned" /\ inverted.set /\ cal_a # 0) =>
    InvertCalibratedProb(StandardSigmoid(cal_a, cal_b, raw_p), cal_a, cal_b) = raw_p

\* a = -2, b = 1, p = 0.3
C8_Witness ==
  /\ pc = "returned" /\ inverted.set
  /\ cal_a = -2 /\ cal_b = 1 /\ 10 * raw_p = 3 * ProbScale
  /\ inverted.raw = raw_p

\* C9 as stated: an inversion on an object without calibration parameters,
\* direct or at the end of plot_precision_recall_curve, fails with
\* NotCalibratedError and returns no value.
C9_NotCalibratedError ==
  (/\ ~calibrated_model.set
   /\ \/ op = "invert" /\ pc # "idle"
      \/ op = "plot" /\ curves.set /\ pc # "plot_invert")
  => pc = "raised" /\ error = "NotCalibratedError" /\ ~inverted.set

\* C10 as stated: the sweep on an empty dataset fails with ConfigurationError
\* before any fold is fitted.
C10_EmptyDatasetConfigurationError ==
  (N = 0 /\ op = "plot" /\ phase # "none") =>
    /\ pc = "raised" /\ error = "ConfigurationError"
    /\ fold = 0 /\ results = NoTable /\ ~pr_data.set

\* C11: two runs of the sweep with the random baseline on the same dataset end
\* alike (the same exception, or the same per-threshold, per-fold counts and
\* the same precision and recall), whatever the process-wide generator held
\* when each run began.
C11_DummyReproducible ==
  \A i, j \in 1..Len(runs) :
    /\ runs[i].error = runs[j].error
    /\ runs[i].table = runs[j].table
    /\ runs[i].data = runs[j].data

\* two completed runs that began with the generator in different states, with
\* a threshold at which the first fold has a true and a false positive
C11_Witness ==
  /\ Len(runs) = 2
  /\ runs[1].rng_before # runs[2].rng_before
  /\ runs[1].error = "none" /\ runs[2].data.set
  /\ \E pos \in 1..NumThresholds :
       runs[2].table.tp_test[pos][1] > 0 /\ runs[2].table.fp_test[pos][1] > 0

\* C12 as stated: predict_proba of the random baseline leaves the process-wide
\* generator as it found it: after a fold of the baseline's sweep has
\* predicted, the generator is in the state it had when the sweep was called.
C12_GlobalGeneratorUntouched ==
  (op = "sweep" /\ predicted_with.kind = "dummy") => rng = rng_at_call

\* the four counts of fold j (1..k) at a threshold, from the fold's held-out
\* labels and the probabilities the running sweep's estimator answers
CountsOfFold(j, threshold) ==
  LET test == SortedSeq(TestIdx(N, perm, j - 1))
      y_test == [k \in 1..Len(test) |-> y[test[k]]]
      probs == PredictProba(work, rng, response, y, test)
  IN FoldCounts(y_test, Classify(probs, threshold))

\* C13: after all k folds of a sweep have run, the thresholds column is the
\* grid (each threshold once, in grid order) and, at every threshold index,
\* each of the four metrics holds a list of exactly k values whose j-th value
\* is the count of fold j at that threshold.
C13_CountsPerThresholdPerFold ==
  (pc = "sweep_fold" /\ fold = NSplits) =>
    /\ results.thresholds = ThresholdGrid
    /\ Len(results.tp_test) = NumThresholds /\ Len(results.fp_test) = NumThresholds
    /\ Len(results.tn_test) = NumThresholds /\ Len(results.fn_test) = NumThresholds
    /\ \A pos \in 1..NumThresholds :
         /\ Len(results.tp_test[pos]) = NSplits /\ Len(results.fp_test[pos]) = NSplits
         /\ Len(results.tn_test[pos]) = NSplits /\ Len(results.fn_test[pos]) = NSplits
         /\ \A j \in 1..NSplits :
              LET c == CountsOfFold(j, ThresholdGrid[pos])
              IN /\ results.tp_test[pos][j] = c.tp /\ results.fp_test[pos][j] = c.fp
                 /\ results.tn_test[pos][j] = c.tn /\ results.fn_test[pos][j] = c.fn

\* a completed sweep in which two folds differ at a threshold and a fold
\* differs between two thresholds
C13_Witness ==
  /\ pc = "sweep_fold" /\ fold = NSplits
  /\ Len(results.tp_test) = NumThresholds
  /\ \E pos \in 1..NumThresholds :
       /\ Len(results.tp_test[pos]) = NSplits
       /\ \E j1, j2 \in 1..NSplits :
            \/ results.tp_test[pos][j1] # results.tp_test[pos][j2]
            \/ results.fp_test[pos][j1] # results.fp_test[pos][j2]
  /\ \E p1, p2 \in 1..NumThresholds :
       /\ Len(results.tp_test[p1]) = NSplits /\ Len(results.tp_test[p2]) = NSplits
       /\ results.tp_test[p1][1] # results.tp_test[p2][1]

\* C14 as stated: the fingerprint a scoring call computes has the radius and
\* the bit length the object is configured with.
C14_ScoringUsesConfiguredFingerprint ==
  last_fp.set => last_fp.radius = fp_radius /\ last_fp.nbits = fp_bit_length

====
